---- MODULE Spec2Model ----
(***************************************************************************)
(* TDL2048-Demo (src/2048.cpp): the 64-bit bitboard, its move table, the   *)
(* isomorphic n-tuple patterns and the TD(0) learner.                      *)
(*                                                                         *)
(* A board is the 64-bit word `raw`, kept here as its 16 nibbles           *)
(* (raw[n] is bits 4n..4n+3, so raw[n] = at(n)).  Every mask, shift and    *)
(* OR of the source is carried out on that nibble vector; the shifts of    *)
(* the source are all multiples of 4 bits.                                 *)
(***************************************************************************)
EXTENDS Integers, Sequences, FiniteSets, TLC

VARIABLES
    pc,      \* which part of the program is being exercised
    raw,     \* board::raw of the board under operation
    hist,    \* the last operations applied to raw: [op, arg, before, ret]
    steps,   \* number of operations (board) or updates (network) applied so far
    rowIn,   \* the 16-bit row handed to lookup::init
    entry,   \* the lookup entry lookup::init(row) filled in
    feats,   \* learning::feats: the registered patterns, in registration order
    weight,  \* feature::weight of each registered pattern
    netop,   \* the last operation on the network, its arguments and results
    rng,     \* the state of rand()
    draws,   \* the values rand() returned since the episode began
    path,    \* main's path: the move records of the episode
    score,   \* main's score of the episode
    epi,     \* main's n: the number of the episode
    target,  \* learn_from_episode's target
    td,      \* the last pass of the loop of learn_from_episode
    file,    \* the weight file on disk
    total,   \* feature::alloc's static total
    status   \* "run", "done", or the exit code of std::exit

boardVars == <<raw, hist, steps>>
rowVars == <<rowIn, entry>>
netVars == <<feats, weight, netop>>
episodeVars == <<rng, draws, path, score, epi, target, td>>
fileVars == <<file, total, status>>
runVars == <<episodeVars, fileVars>>
vars == <<pc, raw, hist, steps, rowIn, entry, feats, weight, netop,
          rng, draws, path, score, epi, target, td, file, total, status>>

----------------------------------------------------------------------------
(* Bounds of the model *)

MaxSymSteps == 4
MaxMoveSteps == 3
MaxUpdates == 2
MaxEpisodes == 1
MaxPath == 60
MaxFileOps == 4
MaxFeatures == 3
HistLen == 4

----------------------------------------------------------------------------
(* Evaluation order *)

\* F applied to the value of v: v is evaluated once, before F, as the
\* statements of the source evaluate their operands
ByValue(v, F(_)) == CHOOSE r \in {F(x) : x \in {v}} : TRUE

----------------------------------------------------------------------------
(* Bit arithmetic on non-negative ints *)

RECURSIVE BitAnd(_, _)
BitAnd(a, b) ==
    IF a = 0 \/ b = 0 THEN 0
    ELSE (IF a % 2 = 1 /\ b % 2 = 1 THEN 1 ELSE 0) + 2 * BitAnd(a \div 2, b \div 2)

RECURSIVE BitOr(_, _)
BitOr(a, b) ==
    IF a = 0 THEN b
    ELSE IF b = 0 THEN a
    ELSE IF a % 16 = 0 \/ b % 16 = 0
         THEN (a % 16) + (b % 16) + 16 * BitOr(a \div 16, b \div 16)
    ELSE (IF a % 2 = 1 \/ b % 2 = 1 THEN 1 ELSE 0) + 2 * BitOr(a \div 2, b \div 2)

\* 1 << n
Shl1(n) == 2 ^ n

----------------------------------------------------------------------------
(* 64-bit words as 16 nibbles *)

Cells == 0 .. 15

\* uint64_t(v) of a non-negative int v
U64(v) == [n \in Cells |-> IF n <= 7 THEN (v \div (16 ^ n)) % 16 ELSE 0]

\* a 64-bit literal, written as its 16 hex digits, most significant first
Lit(h) == [n \in Cells |-> h[16 - n]]

And64(a, b) == [n \in Cells |-> BitAnd(a[n], b[n])]
Or64(a, b) == [n \in Cells |-> BitOr(a[n], b[n])]
\* a << bits and a >> bits, bits a multiple of 4; bits shifted out are lost
Shl64(a, bits) == [n \in Cells |-> IF n >= bits \div 4 THEN a[n - bits \div 4] ELSE 0]
Shr64(a, bits) == [n \in Cells |-> IF n + bits \div 4 <= 15 THEN a[n + bits \div 4] ELSE 0]

ZeroBoard == [n \in Cells |-> 0]

\* 0xfedcba9876543210: cell n holds n
IndexBoard == Lit(<<15,14,13,12, 11,10,9,8, 7,6,5,4, 3,2,1,0>>)

\* the board drawn in the comment of class board
SampleBoard == Lit(<<4,3,1,2, 7,5,2,1, 8,6,5,3, 2,7,3,1>>)

----------------------------------------------------------------------------
(* board: cell and row access *)

fetch(b, i) == b[4 * i] + 16 * b[4 * i + 1] + 256 * b[4 * i + 2] + 4096 * b[4 * i + 3]

at(b, i) == b[i]

set(b, i, t) == [b EXCEPT ![i] = BitAnd(t, 15)]

----------------------------------------------------------------------------
(* board::lookup: the move table *)

\* the loop body without row[i] = 0
mvleft_step_no_clear(s, i) ==
    LET tile == s.row[i] IN
    IF tile = 0 THEN s
    ELSE LET row0 == s.row IN
         IF s.tmp # 0
         THEN IF tile = s.tmp
              THEN [row |-> [row0 EXCEPT ![s.top] = tile + 1],
                    top |-> s.top + 1,
                    tmp |-> 0,
                    score |-> s.score + Shl1(tile + 1)]
              ELSE [row |-> [row0 EXCEPT ![s.top] = s.tmp],
                    top |-> s.top + 1,
                    tmp |-> tile,
                    score |-> s.score]
         ELSE [row |-> row0, top |-> s.top, tmp |-> tile, score |-> s.score]

\* the loop body with the merged tile left at its rank (no tile = tile + 1
\* before the store)
mvleft_step_same_rank(s, i) ==
    LET tile == s.row[i] IN
    IF tile = 0 THEN s
    ELSE LET row0 == [s.row EXCEPT ![i] = 0] IN
         IF s.tmp # 0
         THEN IF tile = s.tmp
              THEN [row |-> [row0 EXCEPT ![s.top] = tile],
                    top |-> s.top + 1,
                    tmp |-> 0,
                    score |-> s.score + Shl1(tile + 1)]
              ELSE [row |-> [row0 EXCEPT ![s.top] = s.tmp],
                    top |-> s.top + 1,
                    tmp |-> tile,
                    score |-> s.score]
         ELSE [row |-> row0, top |-> s.top, tmp |-> tile, score |-> s.score]

\* one iteration of the for loop of mvleft; s = [row, top, tmp, score]
mvleft_step(s, i) ==
    LET tile == s.row[i] IN
    IF tile = 0 THEN s
    ELSE LET row0 == [s.row EXCEPT ![i] = 0] IN
         IF s.tmp # 0
         THEN IF tile = s.tmp
              THEN [row |-> [row0 EXCEPT ![s.top] = tile + 1],
                    top |-> s.top + 1,
                    tmp |-> 0,
                    score |-> s.score + Shl1(tile + 1)]
              ELSE [row |-> [row0 EXCEPT ![s.top] = s.tmp],
                    top |-> s.top + 1,
                    tmp |-> tile,
                    score |-> s.score]
         ELSE [row |-> row0, top |-> s.top, tmp |-> tile, score |-> s.score]

\* mvleft(row): row is a function 0..3 -> int; gives the row left in the
\* array and the returned score
mvleft(row) ==
    LET s0 == [row |-> row, top |-> 0, tmp |-> 0, score |-> 0]
        s1 == mvleft_step(s0, 0)
        s2 == mvleft_step(s1, 1)
        s3 == mvleft_step(s2, 2)
        s4 == mvleft_step(s3, 3)
        fin == IF s4.tmp # 0 THEN [s4.row EXCEPT ![s4.top] = s4.tmp] ELSE s4.row
    IN [row |-> fin, score |-> s4.score]

\* (a[0] << 0) | (a[1] << 4) | (a[2] << 8) | (a[3] << 12)
PackRow(a) == BitOr(BitOr(BitOr(a[0], a[1] * 16), a[2] * 256), a[3] * 4096)

\* lookup::init(r) with the second score added to the first (score +=)
lookup_init_score_sum(r) ==
    LET V == [k \in 0 .. 3 |-> (r \div (16 ^ k)) % 16]
        L == mvleft(V)
        Rm == mvleft([k \in 0 .. 3 |-> V[3 - k]])
        R == [k \in 0 .. 3 |-> Rm.row[3 - k]]
    IN [raw |-> r,
        left |-> PackRow(L.row),
        right |-> PackRow(R),
        score |-> L.score + Rm.score]

\* lookup::init(r): the table entry of the 16-bit row r
lookup_init(r) ==
    LET V == [k \in 0 .. 3 |-> (r \div (16 ^ k)) % 16]
        L == mvleft(V)
        Rm == mvleft([k \in 0 .. 3 |-> V[3 - k]])
        R == [k \in 0 .. 3 |-> Rm.row[3 - k]]
    IN [raw |-> r,
        left |-> PackRow(L.row),
        right |-> PackRow(R),
        score |-> Rm.score]

\* static const lookup cache[65536]: the r-th entry is constructed by init(r)
cache == [r \in 0 .. 65535 |-> lookup_init(r)]

\* lookup::find(row)
find(row) == cache[row]

\* lookup::move_left / move_right: OR the row result into raw, add the score
lookup_move_left(e, acc, i) ==
    ByValue(acc, LAMBDA a :
        [raw |-> Or64(a.raw, Shl64(U64(e.left), 16 * i)), sc |-> a.sc + e.score])

lookup_move_right(e, acc, i) ==
    ByValue(acc, LAMBDA a :
        [raw |-> Or64(a.raw, Shl64(U64(e.right), 16 * i)), sc |-> a.sc + e.score])

----------------------------------------------------------------------------
(* board: symmetry transforms *)

transpose(b) ==
    ByValue(
        Or64(Or64(
            And64(b, Lit(<<15,0,15,0, 0,15,0,15, 15,0,15,0, 0,15,0,15>>)),
            Shl64(And64(b, Lit(<<0,0,0,0, 15,0,15,0, 0,0,0,0, 15,0,15,0>>)), 12)),
            Shr64(And64(b, Lit(<<0,15,0,15, 0,0,0,0, 0,15,0,15, 0,0,0,0>>)), 12)),
        LAMBDA r1 :
        Or64(Or64(
            And64(r1, Lit(<<15,15,0,0, 15,15,0,0, 0,0,15,15, 0,0,15,15>>)),
            Shl64(And64(r1, Lit(<<0,0,0,0, 0,0,0,0, 15,15,0,0, 15,15,0,0>>)), 24)),
            Shr64(And64(r1, Lit(<<0,0,15,15, 0,0,15,15, 0,0,0,0, 0,0,0,0>>)), 24)))

\* mirror with the third term shifted by 8 instead of 4
mirror_shift8(b) ==
    Or64(Or64(Or64(
        Shl64(And64(b, Lit(<<0,0,0,15, 0,0,0,15, 0,0,0,15, 0,0,0,15>>)), 12),
        Shl64(And64(b, Lit(<<0,0,15,0, 0,0,15,0, 0,0,15,0, 0,0,15,0>>)), 4)),
        Shr64(And64(b, Lit(<<0,15,0,0, 0,15,0,0, 0,15,0,0, 0,15,0,0>>)), 8)),
        Shr64(And64(b, Lit(<<15,0,0,0, 15,0,0,0, 15,0,0,0, 15,0,0,0>>)), 12))

mirror(b) ==
    Or64(Or64(Or64(
        Shl64(And64(b, Lit(<<0,0,0,15, 0,0,0,15, 0,0,0,15, 0,0,0,15>>)), 12),
        Shl64(And64(b, Lit(<<0,0,15,0, 0,0,15,0, 0,0,15,0, 0,0,15,0>>)), 4)),
        Shr64(And64(b, Lit(<<0,15,0,0, 0,15,0,0, 0,15,0,0, 0,15,0,0>>)), 4)),
        Shr64(And64(b, Lit(<<15,0,0,0, 15,0,0,0, 15,0,0,0, 15,0,0,0>>)), 12))

flip(b) ==
    Or64(Or64(Or64(
        Shl64(And64(b, Lit(<<0,0,0,0, 0,0,0,0, 0,0,0,0, 15,15,15,15>>)), 48),
        Shl64(And64(b, Lit(<<0,0,0,0, 0,0,0,0, 15,15,15,15, 0,0,0,0>>)), 16)),
        Shr64(And64(b, Lit(<<0,0,0,0, 15,15,15,15, 0,0,0,0, 0,0,0,0>>)), 16)),
        Shr64(And64(b, Lit(<<15,15,15,15, 0,0,0,0, 0,0,0,0, 0,0,0,0>>)), 48))

\* rotate_right with flip() for mirror()
rotate_right_flip(b) == ByValue(transpose(b), LAMBDA t : flip(t))

rotate_right(b) == ByValue(transpose(b), LAMBDA t : mirror(t))
rotate_left(b) == ByValue(transpose(b), LAMBDA t : flip(t))
reverse(b) == ByValue(mirror(b), LAMBDA m : flip(m))

\* ((r % 4) + 4) % 4 with C++ truncating %
CMod(a, n) == IF a >= 0 THEN a % n ELSE -((-a) % n)

rotate(b, r) ==
    CASE CMod(CMod(r, 4) + 4, 4) = 1 -> rotate_right(b)
      [] CMod(CMod(r, 4) + 4, 4) = 2 -> reverse(b)
      [] CMod(CMod(r, 4) + 4, 4) = 3 -> rotate_left(b)
      [] OTHER -> b

----------------------------------------------------------------------------
(* board: moves; each gives the new raw and the returned int *)

\* the four table lookups of move_left: move and score after rows 0..3
left_rows(b) ==
    lookup_move_left(find(fetch(b, 3)),
        lookup_move_left(find(fetch(b, 2)),
            lookup_move_left(find(fetch(b, 1)),
                lookup_move_left(find(fetch(b, 0)), [raw |-> ZeroBoard, sc |-> 0], 0),
                1),
            2),
        3)

\* the four table lookups of move_right
right_rows(b) ==
    lookup_move_right(find(fetch(b, 3)),
        lookup_move_right(find(fetch(b, 2)),
            lookup_move_right(find(fetch(b, 1)),
                lookup_move_right(find(fetch(b, 0)), [raw |-> ZeroBoard, sc |-> 0], 0),
                1),
            2),
        3)

\* move_left without the comparison against prev
move_left_always_legal(b) ==
    ByValue(left_rows(b), LAMBDA a : [raw |-> a.raw, ret |-> a.sc])

move_left(b) ==
    ByValue(left_rows(b),
        LAMBDA a : [raw |-> a.raw, ret |-> IF a.raw # b THEN a.sc ELSE -1])

move_right(b) ==
    ByValue(right_rows(b),
        LAMBDA a : [raw |-> a.raw, ret |-> IF a.raw # b THEN a.sc ELSE -1])

move_up(b) ==
    ByValue(rotate_right(b), LAMBDA r :
        ByValue(move_right(r), LAMBDA m :
            [raw |-> rotate_left(m.raw), ret |-> m.ret]))

move_down(b) ==
    ByValue(rotate_right(b), LAMBDA r :
        ByValue(move_left(r), LAMBDA m :
            [raw |-> rotate_left(m.raw), ret |-> m.ret]))

move(b, opcode) ==
    CASE opcode = 0 -> move_up(b)
      [] opcode = 1 -> move_right(b)
      [] opcode = 2 -> move_down(b)
      [] opcode = 3 -> move_left(b)
      [] OTHER -> [raw |-> b, ret |-> -1]

----------------------------------------------------------------------------
(* board::popup; r1 and r2 are the two values rand() returns *)

\* the scan without the test at(i) == 0
RECURSIVE space_from_all(_, _)
space_from_all(b, i) ==
    IF i > 15 THEN <<>> ELSE <<i>> \o space_from_all(b, i + 1)

\* space[0 .. num-1]: the empty cells in ascending order
RECURSIVE space_from(_, _)
space_from(b, i) ==
    IF i > 15 THEN <<>>
    ELSE (IF at(b, i) = 0 THEN <<i>> ELSE <<>>) \o space_from(b, i + 1)

popup(b, r1, r2) ==
    LET space == space_from(b, 0)
        num == Len(space)
    IN IF num # 0
       THEN set(b, space[(r1 % num) + 1], IF r2 % 10 # 0 THEN 1 ELSE 2)
       ELSE b

----------------------------------------------------------------------------
(* Numbers of type float *)

\* A float is kept as an integer count of a fixed quantum; the deltas the
\* network specification draws are multiples of every divisor they meet, so
\* u / n is exact there; elsewhere the quotient is rounded to a quantum.
FDiv(u, n) == u \div n

\* the float 1.0 in quanta; float(i) of an int i
FloatOne == 640
ToFloat(i) == i * FloatOne

\* a * x for the learning rate a = num / den, rounded to a quantum like FDiv
FScale(a, x) == (a.num * x) \div a.den

\* -std::numeric_limits<float>::max(), below every value the model reaches
NegFltMax == -1073741824

----------------------------------------------------------------------------
(* feature: the weight table, new float[num]() and operator[] *)

\* a table is kept as its non-zero entries; every other entry is 0
ZeroTable == [i \in {} |-> 0]

\* the tables of a network as the constructors leave them
ZeroWeights(fs) == [k \in 1 .. Len(fs) |-> ZeroTable]

get(t, i) == IF i \in DOMAIN t THEN t[i] ELSE 0

put(t, i, v) ==
    IF v = 0 THEN [j \in DOMAIN t \ {i} |-> t[j]]
    ELSE [j \in DOMAIN t \cup {i} |-> IF j = i THEN v ELSE t[j]]

----------------------------------------------------------------------------
(* pattern: isomorphic patterns, estimate and update *)

\* the i-th pass of the loop without idx.mirror() for i >= 4
pattern_isom_no_mirror(p, i) ==
    ByValue(rotate(IndexBoard, i),
        LAMBDA idx : [k \in 1 .. Len(p) |-> at(idx, p[k])])

\* the i-th pass of the constructor's loop: isom[i]
pattern_isom(p, i) ==
    ByValue(rotate(IF i >= 4 THEN mirror(IndexBoard) ELSE IndexBoard, i),
        LAMBDA idx : [k \in 1 .. Len(p) |-> at(idx, p[k])])

\* pattern::pattern(p, iso) on a table of len entries; isom[i] of the source
\* is isom[i + 1] here
pattern_of(p, iso, len) ==
    [length |-> len,
     isom_last |-> iso,
     isom |-> [i \in 1 .. 8 |-> pattern_isom(p, i - 1)]]

\* pattern::pattern(p, iso) for p.size() < 8, where 1 << (p.size() * 4) is
\* defined
pattern(p, iso) == pattern_of(p, iso, 2 ^ (Len(p) * 4))

RECURSIVE indexof_from(_, _, _, _)
indexof_from(patt, b, i, index) ==
    IF i >= Len(patt) THEN index
    ELSE ByValue(BitOr(index, at(b, patt[i + 1]) * (16 ^ i)),
            LAMBDA next : indexof_from(patt, b, i + 1, next))

indexof(patt, b) == indexof_from(patt, b, 0, 0)

\* the loop of pattern::estimate from pass i on
RECURSIVE pattern_estimate_from(_, _, _, _, _)
pattern_estimate_from(f, t, b, i, value) ==
    IF i >= f.isom_last THEN value
    ELSE ByValue(value + get(t, indexof(f.isom[i + 1], b)),
            LAMBDA v : pattern_estimate_from(f, t, b, i + 1, v))

pattern_estimate(f, t, b) == pattern_estimate_from(f, t, b, 0, 0)

\* the loop of pattern::update from pass i on; acc = [table, value]
RECURSIVE pattern_update_from(_, _, _, _, _)
pattern_update_from(f, b, adjust, i, acc) ==
    IF i >= f.isom_last THEN acc
    ELSE ByValue(indexof(f.isom[i + 1], b), LAMBDA index :
         ByValue(put(acc.table, index, get(acc.table, index) + adjust), LAMBDA t :
         ByValue([table |-> t, value |-> acc.value + get(t, index)], LAMBDA a :
            pattern_update_from(f, b, adjust, i + 1, a))))

\* pattern::update with adjust = u
pattern_update_full_delta(f, t, b, u) ==
    pattern_update_from(f, b, u, 0, [table |-> t, value |-> 0])

\* pattern::update(b, u) on table t: the table after it and the value returned
pattern_update(f, t, b, u) ==
    pattern_update_from(f, b, FDiv(u, f.isom_last), 0, [table |-> t, value |-> 0])

----------------------------------------------------------------------------
(* learning: estimate, update, select_best_move; fs is feats, w the tables *)

RECURSIVE learning_estimate_from(_, _, _, _, _)
learning_estimate_from(fs, w, b, k, value) ==
    IF k > Len(fs) THEN value
    ELSE ByValue(value + pattern_estimate(fs[k], w[k], b),
            LAMBDA v : learning_estimate_from(fs, w, b, k + 1, v))

learning_estimate(fs, w, b) == learning_estimate_from(fs, w, b, 1, 0)

\* the loop of learning::update from feature k on;
\* acc = [weight, value, calls], calls the arguments and results of the
\* feat->update calls made so far
RECURSIVE learning_update_from(_, _, _, _, _)
learning_update_from(fs, b, adjust, k, acc) ==
    IF k > Len(fs) THEN acc
    ELSE ByValue(pattern_update(fs[k], acc.weight[k], b, adjust), LAMBDA r :
         ByValue([weight |-> [acc.weight EXCEPT ![k] = r.table],
                  value |-> acc.value + r.value,
                  calls |-> Append(acc.calls, [u |-> adjust, ret |-> r.value])],
            LAMBDA a : learning_update_from(fs, b, adjust, k + 1, a)))

\* learning::update with adjust = u
learning_update_full_delta(fs, w, b, u) ==
    learning_update_from(fs, b, u, 1, [weight |-> w, value |-> 0, calls |-> <<>>])

\* learning::update with the loop over feats started at the second feature
learning_update_skip_first(fs, w, b, u) ==
    learning_update_from(fs, b, FDiv(u, Len(fs)), 2,
        [weight |-> w, value |-> 0, calls |-> <<>>])

learning_update(fs, w, b, u) ==
    learning_update_from(fs, b, FDiv(u, Len(fs)), 1,
        [weight |-> w, value |-> 0, calls |-> <<>>])

\* move::assign on a move with the given opcode
assign(opcode, b) ==
    ByValue(move(b, opcode), LAMBDA m :
        [before |-> b,
         after |-> m.raw,
         opcode |-> opcode,
         score |-> m.ret,
         esti |-> IF m.ret # -1 THEN ToFloat(m.ret) ELSE NegFltMax])

\* move::move(b, opcode)
move_of(b, opcode) == assign(opcode, b)

is_valid(mv) == mv.after # mv.before /\ mv.opcode # -1 /\ mv.score # -1

\* one pass of the loop of select_best_move over moves[k] with >= for >
select_step_last_wins(fs, w, b, best, k) ==
    ByValue(move_of(b, k), LAMBDA mv :
        IF is_valid(mv)
        THEN ByValue([mv EXCEPT !.esti = ToFloat(mv.score) + learning_estimate(fs, w, mv.after)],
                LAMBDA m : IF m.esti >= best.esti THEN m ELSE best)
        ELSE best)

\* one pass of the loop of select_best_move over moves[k]
select_step(fs, w, b, best, k) ==
    ByValue(move_of(b, k), LAMBDA mv :
        IF is_valid(mv)
        THEN ByValue([mv EXCEPT !.esti = ToFloat(mv.score) + learning_estimate(fs, w, mv.after)],
                LAMBDA m : IF m.esti > best.esti THEN m ELSE best)
        ELSE best)

\* select_best_move walking moves[] from left (3) back to up (0)
select_best_move_from_left(fs, w, b) ==
    ByValue(select_step(fs, w, b, move_of(b, -1), 3), LAMBDA b0 :
    ByValue(select_step(fs, w, b, b0, 2), LAMBDA b1 :
    ByValue(select_step(fs, w, b, b1, 1), LAMBDA b2 :
        select_step(fs, w, b, b2, 0))))

select_best_move(fs, w, b) ==
    ByValue(select_step(fs, w, b, move_of(b, -1), 0), LAMBDA b0 :
    ByValue(select_step(fs, w, b, b0, 1), LAMBDA b1 :
    ByValue(select_step(fs, w, b, b1, 2), LAMBDA b2 :
        select_step(fs, w, b, b2, 3))))

----------------------------------------------------------------------------
(* Operation history *)

NoEntry == [raw |-> -1, left |-> -1, right |-> -1, score |-> -1]

NoMove == [before |-> ZeroBoard, after |-> ZeroBoard, opcode |-> -1, score |-> -1,
           esti |-> NegFltMax]

\* no pass of learn_from_episode made yet
NoTd == [mv |-> NoMove, target |-> 0, error |-> 0, before |-> <<>>]

\* a path no stream can open, as the "" of main
NoFile == [readable |-> FALSE, writable |-> FALSE, items |-> <<>>]

\* a path with no file yet, where a file can be created
AbsentFile == [readable |-> FALSE, writable |-> TRUE, items |-> <<>>]

NoOp == [op |-> "none", b |-> ZeroBoard, u |-> 0, ret |-> 0, before |-> <<>>,
         calls |-> <<>>, best |-> NoMove, file |-> NoFile]

\* the parts of the state a specification does not exercise
IdleBoard == raw = ZeroBoard /\ hist = <<>> /\ steps = 0
IdleRow == rowIn = 0 /\ entry = NoEntry
IdleNet == feats = <<>> /\ weight = <<>> /\ netop = NoOp
IdleEpisode ==
    /\ rng = 0 /\ draws = <<>> /\ path = <<>> /\ score = 0 /\ epi = 0
    /\ target = 0 /\ td = NoTd
IdleFile == file = NoFile /\ total = 0 /\ status = "run"
IdleRun == IdleEpisode /\ IdleFile

Record(op, arg, before, ret) == [op |-> op, arg |-> arg, before |-> before, ret |-> ret]

\* append a record, keeping the last HistLen
Push(h, r) ==
    LET all == Append(h, r)
    IN IF Len(all) > HistLen THEN SubSeq(all, Len(all) - HistLen + 1, Len(all)) ELSE all

Last(h) == h[Len(h)]

\* the board an operation of the history produced
After(k) == IF k = Len(hist) THEN raw ELSE hist[k + 1].before

----------------------------------------------------------------------------
(* The move table: lookup::init on every 16-bit row *)

Rows == 0 .. 65535

InitRow ==
    /\ IdleRun
    /\ pc = "row"
    /\ rowIn \in Rows
    /\ entry = NoEntry
    /\ IdleBoard
    /\ IdleNet

LookupInit ==
    /\ pc = "row"
    /\ entry = NoEntry
    /\ entry' = lookup_init(rowIn)
    /\ UNCHANGED <<pc, runVars, boardVars, rowIn, netVars>>

NextRow == LookupInit

SpecRow == InitRow /\ [][NextRow]_vars

----------------------------------------------------------------------------
(* The symmetry transforms applied to a board *)

SymBoards ==
    { IndexBoard, SampleBoard,
      [n \in Cells |-> IF n \in {0, 1, 2, 4} THEN n + 1 ELSE 0] }

InitSym ==
    /\ IdleRun
    /\ pc = "sym"
    /\ raw \in SymBoards
    /\ hist = <<>>
    /\ steps = 0
    /\ IdleRow
    /\ IdleNet

SymOp(name, arg, result) ==
    /\ pc = "sym"
    /\ steps < MaxSymSteps
    /\ raw' = result
    /\ hist' = Push(hist, Record(name, arg, raw, 0))
    /\ steps' = steps + 1
    /\ UNCHANGED <<pc, runVars, rowVars, netVars>>

Transpose == SymOp("transpose", 0, transpose(raw))
Mirror == SymOp("mirror", 0, mirror(raw))
Flip == SymOp("flip", 0, flip(raw))
RotateRight == SymOp("rotate_right", 0, rotate_right(raw))
RotateLeft == SymOp("rotate_left", 0, rotate_left(raw))
Reverse == SymOp("reverse", 0, reverse(raw))
Rotate == \E r \in {-1, 0, 2, 5} : SymOp("rotate", r, rotate(raw, r))

NextSym ==
    \/ Transpose
    \/ Mirror
    \/ Flip
    \/ RotateRight
    \/ RotateLeft
    \/ Reverse
    \/ Rotate

SpecSym == InitSym /\ [][NextSym]_vars

----------------------------------------------------------------------------
(* Moves and random tiles applied to a board *)

RowsBoard(r0, r1, r2, r3) ==
    [n \in Cells |-> (<<r0, r1, r2, r3>>[(n \div 4) + 1])[(n % 4) + 1]]

MoveBoards ==
    { RowsBoard(<<1,1,2,0>>, <<1,0,1,2>>, <<2,2,2,2>>, <<0,3,3,1>>),
      RowsBoard(<<1,2,1,2>>, <<2,1,2,1>>, <<1,2,1,2>>, <<2,1,2,1>>),
      RowsBoard(<<1,2,3,4>>, <<2,3,4,5>>, <<3,4,5,6>>, <<4,5,6,0>>),
      RowsBoard(<<3,2,1,1>>, <<4,5,6,7>>, <<1,2,3,4>>, <<5,6,7,8>>),
      RowsBoard(<<0,0,15,15>>, <<1,3,2,1>>, <<14,14,15,1>>, <<2,1,3,2>>),
      RowsBoard(<<15,15,15,15>>, <<15,1,2,3>>, <<15,2,1,1>>, <<15,15,1,0>>),
      RowsBoard(<<2,0,1,3>>, <<0,1,2,0>>, <<1,3,0,2>>, <<3,2,1,1>>),
      SampleBoard }

\* values of rand(): every residue modulo a number of empty cells, and for
\* the tile both a multiple of 10 and a non-multiple
RandVals == 0 .. 15
TileRands == {0, 7, 10}

InitMove ==
    /\ IdleRun
    /\ pc = "move"
    /\ raw \in MoveBoards
    /\ hist = <<>>
    /\ steps = 0
    /\ IdleRow
    /\ IdleNet

Move ==
    \E opcode \in -1 .. 3 :
        /\ pc = "move"
        /\ steps < MaxMoveSteps
        /\ \E m \in {move(raw, opcode)} :
              /\ raw' = m.raw
              /\ hist' = Push(hist, Record("move", opcode, raw, m.ret))
        /\ steps' = steps + 1
        /\ UNCHANGED <<pc, runVars, rowVars, netVars>>

Popup ==
    \E r1 \in RandVals, r2 \in TileRands :
        /\ pc = "move"
        /\ steps < MaxMoveSteps
        /\ raw' = popup(raw, r1, r2)
        /\ hist' = Push(hist, Record("popup", 0, raw, 0))
        /\ steps' = steps + 1
        /\ UNCHANGED <<pc, runVars, rowVars, netVars>>

NextMove ==
    \/ Move
    \/ Popup

SpecMove == InitMove /\ [][NextMove]_vars

----------------------------------------------------------------------------
(* The n-tuple network: estimate, update and select_best_move applied to   *)
(* networks whose tables start at zero                                     *)

\* the network main() registers, a single 2-tuple, and a network of
\* patterns with 4 and with 1 active isomorphisms
Networks ==
    { << pattern(<<0, 1, 2, 3, 4, 5>>, 8), pattern(<<4, 5, 6, 7, 8, 9>>, 8),
         pattern(<<0, 1, 2, 4, 5, 6>>, 8), pattern(<<4, 5, 6, 8, 9, 10>>, 8) >>,
      << pattern(<<0, 1>>, 8) >>,
      << pattern(<<0, 5>>, 4), pattern(<<1, 2>>, 1) >> }

\* states handed to select_best_move
PlaySeq ==
    << RowsBoard(<<1,1,2,0>>, <<1,0,1,2>>, <<2,2,2,2>>, <<0,3,3,1>>),
       RowsBoard(<<1,1,0,0>>, <<0,0,0,0>>, <<0,0,0,0>>, <<0,0,0,0>>),
       RowsBoard(<<1,2,1,2>>, <<2,1,2,1>>, <<1,2,1,2>>, <<2,1,2,1>>),
       RowsBoard(<<1,1,1,1>>, <<1,1,1,1>>, <<1,1,1,1>>, <<1,1,1,1>>) >>

PlayBoards == { PlaySeq[n] : n \in 1 .. Len(PlaySeq) }

\* afterstates of theirs: the boards estimate and update are called on
AfterBoards ==
    { move(PlaySeq[1], 0).raw, move(PlaySeq[1], 3).raw,
      move(PlaySeq[2], 1).raw, move(PlaySeq[4], 3).raw }

\* multiples of feats.size() * isom_last of every network
Deltas == {ToFloat(-64), ToFloat(32)}

InitNet ==
    /\ IdleRun
    /\ pc = "net"
    /\ feats \in Networks
    /\ weight = [k \in 1 .. Len(feats) |-> ZeroTable]
    /\ netop = NoOp
    /\ IdleBoard
    /\ IdleRow

Estimate ==
    \E b \in AfterBoards :
        /\ pc = "net"
        /\ netop' = [NoOp EXCEPT !.op = "estimate", !.b = b, !.before = weight,
                                 !.ret = learning_estimate(feats, weight, b)]
        /\ UNCHANGED <<pc, runVars, boardVars, rowVars, feats, weight>>

Update ==
    \E b \in AfterBoards, u \in Deltas :
        /\ pc = "net"
        /\ steps < MaxUpdates
        /\ steps' = steps + 1
        /\ \E r \in {learning_update(feats, weight, b, u)} :
              /\ weight' = r.weight
              /\ netop' = [NoOp EXCEPT !.op = "update", !.b = b, !.u = u,
                                       !.before = weight, !.ret = r.value,
                                       !.calls = r.calls]
        /\ UNCHANGED <<pc, runVars, raw, hist, rowVars, feats>>

SelectBestMove ==
    \E b \in PlayBoards :
        /\ pc = "net"
        /\ netop' = [NoOp EXCEPT !.op = "select", !.b = b, !.before = weight,
                                 !.best = select_best_move(feats, weight, b)]
        /\ UNCHANGED <<pc, runVars, boardVars, rowVars, feats, weight>>

NextNet ==
    \/ Estimate
    \/ Update
    \/ SelectBestMove

SpecNet == InitNet /\ [][NextNet]_vars

----------------------------------------------------------------------------
(* rand(): a stream of values fixed by the seed.  The two calls in the      *)
(* argument list of set(...) in board::popup are made in an order the build *)
(* chooses.                                                                 *)

rand_next(x) == (x * 25173 + 13849) % 65536
rand_value(x) == x \div 16

\* popup() drawing from the stream r = [x, cellFirst]:
\* the board, the stream and the values drawn, in the order drawn
popup_rand(b, r) ==
    IF \A n \in Cells : at(b, n) # 0
    THEN [raw |-> b, rng |-> r, drawn |-> <<>>]
    ELSE ByValue(rand_next(r.x), LAMBDA x1 :
         ByValue(rand_next(x1), LAMBDA x2 :
            [raw |-> IF r.cellFirst
                     THEN popup(b, rand_value(x1), rand_value(x2))
                     ELSE popup(b, rand_value(x2), rand_value(x1)),
             rng |-> [r EXCEPT !.x = x2],
             drawn |-> <<rand_value(x1), rand_value(x2)>>]))

\* board::init() with one popup()
board_init_one_popup(r) ==
    ByValue(popup_rand(ZeroBoard, r), LAMBDA p1 :
        [raw |-> p1.raw, rng |-> p1.rng, drawn |-> p1.drawn])

\* board::init()
board_init(r) ==
    ByValue(popup_rand(ZeroBoard, r), LAMBDA p1 :
    ByValue(popup_rand(p1.raw, p1.rng), LAMBDA p2 :
        [raw |-> p2.raw, rng |-> p2.rng, drawn |-> p1.drawn \o p2.drawn]))

----------------------------------------------------------------------------
(* main: episodes of play, each followed by learn_from_episode              *)

\* float alpha = 0.1
Alpha == [num |-> 1, den |-> 10]

\* one pass of the loop of learn_from_episode with the value recorded in the
\* move for estimate(move.afterstate())
learn_step_recorded(fs, w, mv, tg, alpha) ==
    ByValue(tg - (mv.esti - ToFloat(mv.score)), LAMBDA error :
    ByValue(learning_update(fs, w, mv.after, FScale(alpha, error)), LAMBDA r :
        [weight |-> r.weight, target |-> ToFloat(mv.score) + r.value,
         error |-> error]))

\* one pass of the loop with target = update(...) and no move.reward()
learn_step_no_reward(fs, w, mv, tg, alpha) ==
    ByValue(tg - learning_estimate(fs, w, mv.after), LAMBDA error :
    ByValue(learning_update(fs, w, mv.after, FScale(alpha, error)), LAMBDA r :
        [weight |-> r.weight, target |-> r.value, error |-> error]))

\* one pass of the loop of learn_from_episode on move = path.back()
learn_step(fs, w, mv, tg, alpha) ==
    ByValue(tg - learning_estimate(fs, w, mv.after), LAMBDA error :
    ByValue(learning_update(fs, w, mv.after, FScale(alpha, error)), LAMBDA r :
        [weight |-> r.weight, target |-> ToFloat(mv.score) + r.value,
         error |-> error]))

\* path.pop_back()
pop_back(p) == SubSeq(p, 1, Len(p) - 1)

\* seeds of rand() under both orders of the two calls in popup
Streams ==
    { [x |-> sd, cellFirst |-> TRUE] : sd \in {30421, 51345, 65016, 7} }
      \cup { [x |-> sd, cellFirst |-> FALSE] : sd \in {60728, 30178, 29013, 7} }

MainNetwork ==
    << pattern(<<0, 1, 2, 3, 4, 5>>, 8), pattern(<<4, 5, 6, 7, 8, 9>>, 8),
       pattern(<<0, 1, 2, 4, 5, 6>>, 8), pattern(<<4, 5, 6, 8, 9, 10>>, 8) >>

InitMain ==
    /\ pc = "begin"
    /\ rng \in Streams
    /\ draws = <<>> /\ path = <<>> /\ score = 0 /\ epi = 0
    /\ target = 0 /\ td = NoTd
    /\ feats = MainNetwork
    /\ weight = [k \in 1 .. Len(feats) |-> ZeroTable]
    /\ netop = NoOp
    /\ IdleBoard
    /\ IdleRow
    /\ IdleFile

\* for (n = 1; n <= total; n++) { board state; int score = 0; state.init();
BeginEpisode ==
    /\ pc = "begin"
    /\ epi < MaxEpisodes
    /\ epi' = epi + 1
    /\ score' = 0
    /\ \E i \in {board_init(rng)} :
          /\ raw' = i.raw
          /\ rng' = i.rng
          /\ draws' = i.drawn
    /\ pc' = "play"
    /\ UNCHANGED <<hist, steps, rowVars, netVars, path, target, td, fileVars>>

\* one pass of while (true): select_best_move, push_back, then either the
\* move and popup or break
Play ==
    /\ pc = "play"
    /\ Len(path) < MaxPath
    /\ \E best \in {select_best_move(feats, weight, raw)} :
          /\ path' = Append(path, best)
          /\ IF is_valid(best)
             THEN \E p \in {popup_rand(best.after, rng)} :
                     /\ score' = score + best.score
                     /\ raw' = p.raw
                     /\ rng' = p.rng
                     /\ draws' = draws \o p.drawn
                     /\ pc' = "play"
             ELSE /\ pc' = "ended"
                  /\ UNCHANGED <<score, raw, rng, draws>>
    /\ UNCHANGED <<hist, steps, rowVars, netVars, epi, target, td, fileVars>>

\* learn_from_episode up to the loop: target = 0, path.pop_back()
LearnBegin ==
    /\ pc = "ended"
    /\ target' = 0
    /\ path' = pop_back(path)
    /\ td' = NoTd
    /\ pc' = "learn"
    /\ UNCHANGED <<boardVars, rowVars, netVars, rng, draws, score, epi, fileVars>>

\* one pass of the loop of learn_from_episode
LearnStep ==
    /\ pc = "learn"
    /\ path # <<>>
    /\ \E r \in {learn_step(feats, weight, Last(path), target, Alpha)} :
          /\ weight' = r.weight
          /\ target' = r.target
          /\ td' = [mv |-> Last(path), target |-> target, error |-> r.error,
                    before |-> weight]
    /\ path' = pop_back(path)
    /\ UNCHANGED <<pc, boardVars, rowVars, feats, netop, rng, draws, score, epi,
                   fileVars>>

\* the loop of learn_from_episode ends; make_statistic, path.clear()
EndEpisode ==
    /\ pc = "learn"
    /\ path = <<>>
    /\ pc' = "begin"
    /\ UNCHANGED <<boardVars, rowVars, netVars, episodeVars, fileVars>>

NextMain ==
    \/ BeginEpisode
    \/ Play
    \/ LearnBegin
    \/ LearnStep
    \/ EndEpisode

SpecMain == InitMain /\ [][NextMain]_vars

----------------------------------------------------------------------------
(* The weight file: operator <<, operator >>, learning::save and load.     *)
(* A file is the sequence of the items written: a size_t, an int, a run of *)
(* chars or a run of floats; a file cut short ends in a part of an item.   *)

HexChar(d) ==
    <<"0", "1", "2", "3", "4", "5", "6", "7", "8", "9", "a", "b", "c", "d", "e", "f">>[d + 1]

\* pattern::nameof
nameof(patt) == [k \in 1 .. Len(patt) |-> HexChar(patt[k])]

\* pattern::name: std::to_string(isom[0].size()) + "-tuple pattern " + nameof(isom[0])
name(f) ==
    <<HexChar(Len(f.isom[1]))>>
        \o <<"-", "t", "u", "p", "l", "e", " ", "p", "a", "t", "t", "e", "r", "n", " ">>
        \o nameof(f.isom[1])

\* operator << (out, w)
feature_write(f, t) ==
    << [kind |-> "int", val |-> Len(name(f))],
       [kind |-> "chars", val |-> name(f)],
       [kind |-> "size_t", val |-> f.length],
       [kind |-> "floats", len |-> f.length, val |-> t] >>

RECURSIVE save_from(_, _, _, _)
save_from(fs, w, k, out) ==
    IF k > Len(fs) THEN out
    ELSE ByValue(out \o feature_write(fs[k], w[k]),
            LAMBDA o : save_from(fs, w, k + 1, o))

\* learning::save on a stream that opened: the items written
save_items(fs, w) ==
    save_from(fs, w, 1, <<[kind |-> "size_t", val |-> Len(fs)]>>)

\* learning::save(path) without the test out.is_open()
save_always(fl, fs, w) ==
    [readable |-> TRUE, writable |-> TRUE, items |-> save_items(fs, w)]

\* learning::save(path)
save(fl, fs, w) ==
    IF fl.writable
    THEN [readable |-> TRUE, writable |-> TRUE, items |-> save_items(fs, w)]
    ELSE fl

\* an input stream: the items not yet read and !fail()
istream(fl) == [items |-> fl.items, good |-> TRUE]

Failed(in) == [items |-> <<>>, good |-> FALSE]

\* in.read into an int holding init
read_int(in, init) ==
    IF in.good /\ in.items # <<>> /\ in.items[1].kind = "int"
    THEN [val |-> in.items[1].val, in |-> [in EXCEPT !.items = Tail(in.items)]]
    ELSE IF in.good /\ in.items # <<>> /\ in.items[1].kind = "cut"
    THEN [val |-> in.items[1].val, in |-> Failed(in)]
    ELSE [val |-> init, in |-> Failed(in)]

\* in.read into a size_t that is not initialised and holds junk
read_size_t(in, junk) ==
    IF in.good /\ in.items # <<>> /\ in.items[1].kind = "size_t"
    THEN [val |-> in.items[1].val, in |-> [in EXCEPT !.items = Tail(in.items)]]
    ELSE [val |-> junk, in |-> Failed(in)]

\* name.resize(len); in.read(&name[0], len)
read_chars(in, len) ==
    LET blank == [k \in 1 .. len |-> "NUL"]
    IN IF in.good /\ in.items # <<>> /\ in.items[1].kind = "chars"
       THEN LET got == in.items[1].val
            IN IF Len(got) >= len
               THEN [val |-> SubSeq(got, 1, len),
                     in |-> [in EXCEPT !.items = Tail(in.items)]]
               ELSE [val |-> got \o SubSeq(blank, Len(got) + 1, len), in |-> Failed(in)]
       ELSE [val |-> blank, in |-> Failed(in)]

\* in.read(weight, sizeof(float) * size) into table t
read_floats(in, t, size) ==
    IF in.good /\ in.items # <<>> /\ in.items[1].kind = "floats"
    THEN LET got == in.items[1]
         IN IF got.len >= size
            THEN [val |-> got.val, in |-> [in EXCEPT !.items = Tail(in.items)]]
            ELSE [val |-> [j \in {i \in DOMAIN got.val : i < got.len}
                                   \cup {i \in DOMAIN t : i >= got.len} |->
                              IF j < got.len THEN got.val[j] ELSE t[j]],
                  in |-> Failed(in)]
    ELSE [val |-> t, in |-> Failed(in)]

\* operator >> (in, w) that leaves the table as it was
feature_read_skip_data(in, f, t, junk) ==
    ByValue(read_int(in, 0), LAMBDA len :
    ByValue(read_chars(len.in, len.val), LAMBDA nm :
        IF nm.val # name(f) THEN [in |-> nm.in, table |-> t, exit |-> TRUE]
        ELSE ByValue(read_size_t(nm.in, junk), LAMBDA size :
             IF size.val # f.length THEN [in |-> size.in, table |-> t, exit |-> TRUE]
             ELSE ByValue(read_floats(size.in, t, size.val), LAMBDA data :
                    [in |-> data.in, table |-> t, exit |-> ~data.in.good]))))

\* operator >> (in, w): the stream, the table and whether std::exit(1) was called
feature_read(in, f, t, junk) ==
    ByValue(read_int(in, 0), LAMBDA len :
    ByValue(read_chars(len.in, len.val), LAMBDA nm :
        IF nm.val # name(f) THEN [in |-> nm.in, table |-> t, exit |-> TRUE]
        ELSE ByValue(read_size_t(nm.in, junk), LAMBDA size :
             IF size.val # f.length THEN [in |-> size.in, table |-> t, exit |-> TRUE]
             ELSE ByValue(read_floats(size.in, t, size.val), LAMBDA data :
                    [in |-> data.in, table |-> data.val, exit |-> ~data.in.good]))))

\* the loop of learning::load from feature k on
RECURSIVE load_from(_, _, _, _, _)
load_from(in, fs, w, junk, k) ==
    IF k > Len(fs) THEN [weight |-> w, status |-> "run"]
    ELSE ByValue(feature_read(in, fs[k], w[k], junk), LAMBDA r :
            IF r.exit THEN [weight |-> [w EXCEPT ![k] = r.table], status |-> "exit1"]
            ELSE load_from(r.in, fs, [w EXCEPT ![k] = r.table], junk, k + 1))

\* learning::load(path) without the test of the feature count
load_no_count_check(fl, fs, w, junk) ==
    IF fl.readable
    THEN ByValue(read_size_t(istream(fl), junk), LAMBDA size :
            load_from(size.in, fs, w, junk, 1))
    ELSE [weight |-> w, status |-> "run"]

\* learning::load(path); junk is what the size_t variables hold before a read
load(fl, fs, w, junk) ==
    IF fl.readable
    THEN ByValue(read_size_t(istream(fl), junk), LAMBDA size :
            IF size.val # Len(fs) THEN [weight |-> w, status |-> "exit1"]
            ELSE load_from(size.in, fs, w, junk, 1))
    ELSE [weight |-> w, status |-> "run"]

\* the first part of an item, as a file cut inside it holds
part_of(item) ==
    CASE item.kind = "chars" ->
            [item EXCEPT !.val = SubSeq(item.val, 1, Len(item.val) \div 2)]
      [] item.kind = "floats" ->
            [kind |-> "floats", len |-> item.len \div 2,
             val |-> [j \in {i \in DOMAIN item.val : i < item.len \div 2} |-> item.val[j]]]
      [] OTHER -> [kind |-> "cut", val |-> item.val % 256]

\* the file cut after j whole items, with or without a part of the next
cut_file(fl, j, part) ==
    [fl EXCEPT !.items = SubSeq(fl.items, 1, j)
                           \o (IF part THEN <<part_of(fl.items[j + 1])>> ELSE <<>>)]

FileNetworks ==
    { << pattern(<<0, 1>>, 8) >>,
      << pattern(<<0, 5>>, 4) >>,
      << pattern(<<0, 1>>, 8), pattern(<<1, 2>>, 1) >>,
      << pattern(<<0, 1, 2>>, 8) >> }

FileBoards == { RowsBoard(<<1,2,0,0>>, <<0,3,0,0>>, <<0,0,0,0>>, <<0,0,0,1>>) }

Junk == {1, 2, 256}

InitFile ==
    /\ pc = "file"
    /\ feats \in FileNetworks
    /\ weight = [k \in 1 .. Len(feats) |-> ZeroTable]
    /\ netop = NoOp
    /\ file \in {NoFile, AbsentFile}
    /\ total = 0
    /\ status = "run"
    /\ IdleBoard
    /\ IdleRow
    /\ IdleEpisode

FileOp ==
    /\ pc = "file"
    /\ steps < MaxFileOps
    /\ steps' = steps + 1

\* a new run of the program: its features registered, their tables zero
Restart ==
    /\ FileOp
    /\ feats' \in FileNetworks
    /\ weight' = [k \in 1 .. Len(feats') |-> ZeroTable]
    /\ netop' = NoOp
    /\ status' = "run"
    /\ UNCHANGED <<pc, raw, hist, rowVars, episodeVars, file, total>>

Train ==
    \E b \in FileBoards, u \in Deltas :
        /\ FileOp
        /\ status = "run"
        /\ weight' = learning_update(feats, weight, b, u).weight
        /\ netop' = [NoOp EXCEPT !.op = "update", !.b = b, !.u = u, !.before = weight]
        /\ UNCHANGED <<pc, raw, hist, rowVars, feats, episodeVars, fileVars>>

\* tdl.save(path); hist keeps what was saved while the file is as written,
\* netop the file as it was before the call
Save ==
    /\ FileOp
    /\ status = "run"
    /\ file' = save(file, feats, weight)
    /\ hist' = IF file.writable THEN <<[feats |-> feats, weight |-> weight]>> ELSE hist
    /\ netop' = [NoOp EXCEPT !.op = "save", !.before = weight, !.file = file]
    /\ UNCHANGED <<pc, raw, rowVars, feats, weight, episodeVars, total, status>>

\* tdl.load(path)
Load ==
    \E junk \in Junk :
        /\ FileOp
        /\ status = "run"
        /\ \E r \in {load(file, feats, weight, junk)} :
              /\ weight' = r.weight
              /\ status' = r.status
        /\ netop' = [NoOp EXCEPT !.op = "load", !.before = weight, !.file = file]
        /\ UNCHANGED <<pc, raw, hist, rowVars, feats, episodeVars, file, total>>

\* the file is cut short
Truncate ==
    \E j \in 0 .. Len(file.items) - 1, part \in BOOLEAN :
        /\ FileOp
        /\ file.readable
        /\ file' = cut_file(file, j, part)
        /\ hist' = <<>>
        /\ netop' = NoOp
        /\ UNCHANGED <<pc, raw, rowVars, feats, weight, episodeVars, total, status>>

\* a size_t of the file is replaced, as in a file of another program
Tamper ==
    \E j \in 1 .. Len(file.items), v \in Junk :
        /\ FileOp
        /\ file.readable
        /\ file.items[j].kind = "size_t"
        /\ file.items[j].val # v
        /\ file' = [file EXCEPT !.items[j].val = v]
        /\ hist' = <<>>
        /\ netop' = NoOp
        /\ UNCHANGED <<pc, raw, rowVars, feats, weight, episodeVars, total, status>>

\* the file is made read-only
Protect ==
    /\ FileOp
    /\ file.readable
    /\ file.writable
    /\ file' = [file EXCEPT !.writable = FALSE]
    /\ netop' = NoOp
    /\ UNCHANGED <<pc, raw, hist, rowVars, feats, weight, episodeVars, total, status>>

NextFile ==
    \/ Restart
    \/ Train
    \/ Save
    \/ Load
    \/ Truncate
    \/ Tamper
    \/ Protect

SpecFile == InitFile /\ [][NextFile]_vars

----------------------------------------------------------------------------
(* Construction of patterns: 1 << (p.size() * 4) and feature::alloc        *)

\* 1 << k on the int 1.  For k >= 32 the shift is undefined: a build that
\* shifts by k modulo 32 gives 2^(k % 32), one that shifts all the way out
\* gives 0; wraps says which of the two this build does.
shl_int_1(k, wraps) ==
    IF k < 31 THEN 2 ^ k
    ELSE IF wraps THEN 2 ^ (k % 32) ELSE 0

\* static size_t limit = (1 << 30) / sizeof(float)
alloc_limit == (2 ^ 30) \div 4

\* feature::alloc(num) with total as it stands: total after it and whether
\* std::exit(-1) was called
alloc(tot, num) ==
    [total |-> tot + num, exit |-> tot + num > alloc_limit]

\* the tuples handed to the constructor: 0, 2, 6, 7, 8 and 9 positions
Tuple(n) == [k \in 1 .. n |-> (k - 1) % 16]
AllocSizes == {0, 2, 6, 7, 8, 9}

\* size_t(v << k) for an int v in 0..15 and k a multiple of 4, as a 64-bit
\* word.  The shift is made on int: for k >= 32 it is undefined and the build
\* shifts by k modulo 32 or shifts everything out (wraps, as in shl_int_1);
\* a result with bit 31 set is a negative int, which the conversion to size_t
\* sign-extends.
shl_int(v, k, wraps) ==
    IF k >= 32 /\ ~wraps THEN ZeroBoard
    ELSE [n \in Cells |->
            IF n = (k % 32) \div 4 THEN v
            ELSE IF n >= 8 /\ (k % 32) = 28 /\ v >= 8 THEN 15
            ELSE 0]

\* pattern::indexof with index kept as the 64-bit size_t it is
RECURSIVE indexof_size_t_from(_, _, _, _, _)
indexof_size_t_from(patt, b, wraps, i, index) ==
    IF i >= Len(patt) THEN index
    ELSE ByValue(Or64(index, shl_int(at(b, patt[i + 1]), 4 * i, wraps)),
            LAMBDA next : indexof_size_t_from(patt, b, wraps, i + 1, next))

indexof_size_t(patt, b, wraps) == indexof_size_t_from(patt, b, wraps, 0, ZeroBoard)

\* boards whose index is taken: the empty board, a board with one tile, the
\* board of the class comment, and the board whose cell n holds rank n
IndexedBoards ==
    { ZeroBoard, [ZeroBoard EXCEPT ![0] = 1], SampleBoard, IndexBoard }

InitAlloc ==
    /\ pc = "alloc"
    /\ feats = <<>>
    /\ weight = <<>>
    /\ netop = NoOp
    /\ file = NoFile
    /\ total = 0
    /\ status = "run"
    /\ IdleBoard
    /\ IdleRow
    /\ IdleEpisode

\* new pattern(p): feature(1 << (p.size() * 4)), then the test p.empty();
\* netop keeps p.size() and total as it was
Construct ==
    \E n \in AllocSizes, wraps \in BOOLEAN :
        /\ pc = "alloc"
        /\ status = "run"
        /\ Len(feats) < MaxFeatures
        /\ \E a \in {alloc(total, shl_int_1(n * 4, wraps))} :
              /\ total' = a.total
              /\ IF a.exit
                 THEN status' = "exit-1" /\ UNCHANGED <<feats, weight>>
                 ELSE IF n = 0
                 THEN status' = "exit1" /\ UNCHANGED <<feats, weight>>
                 ELSE /\ status' = "run"
                      /\ feats' = Append(feats,
                                    pattern_of(Tuple(n), 8, shl_int_1(n * 4, wraps)))
                      /\ weight' = Append(weight, ZeroTable)
        /\ netop' = [NoOp EXCEPT !.op = "construct", !.u = n, !.ret = total]
        /\ UNCHANGED <<pc, boardVars, rowVars, episodeVars, file>>

NextAlloc == Construct

SpecAlloc == InitAlloc /\ [][NextAlloc]_vars

----------------------------------------------------------------------------
(* The play loop of main() from a given board, under every value rand()    *)
(* can return                                                              *)

\* a full board whose last row alone can move
LastRowBoard == RowsBoard(<<5,6,7,8>>, <<9,10,11,12>>, <<13,14,13,14>>, <<1,1,4,4>>)

\* boards late in a game: full, tiles up to rank 15
PlayStarts ==
    { RowsBoard(<<3,15,15,4>>, <<5,6,7,8>>, <<9,10,11,12>>, <<13,14,13,14>>),
      RowsBoard(<<1,2,1,2>>, <<2,1,2,1>>, <<1,2,1,2>>, <<2,1,2,1>>),
      LastRowBoard }

\* the weights the episode is played with: a new network, and one trained
\* against the afterstate of moving LastRowBoard right
PlayNetworks == {<<pattern(<<0, 1>>, 8)>>}
PlayWeights(fs) ==
    ByValue(move(LastRowBoard, 1).raw, LAMBDA b :
        { ZeroWeights(fs),
          learning_update(fs, ZeroWeights(fs), b, ToFloat(-64)).weight })

InitPlay ==
    /\ pc = "play"
    /\ raw \in PlayStarts
    /\ hist = <<>> /\ steps = 0
    /\ feats \in PlayNetworks
    /\ weight \in PlayWeights(feats)
    /\ netop = NoOp
    /\ rng = 0 /\ draws = <<>> /\ path = <<>> /\ score = 0 /\ epi = 1
    /\ target = 0 /\ td = NoTd
    /\ IdleRow
    /\ IdleFile

\* one pass of while (true): select_best_move, push_back, then either the
\* move and popup, r1 and r2 being the values of its two calls of rand(), or
\* break
PlayTurn ==
    /\ pc = "play"
    /\ Len(path) < MaxPath
    /\ \E best \in {select_best_move(feats, weight, raw)} :
          /\ path' = Append(path, best)
          /\ IF is_valid(best)
             THEN /\ score' = score + best.score
                  /\ raw' \in {popup(best.after, r1, r2) :
                                  r1 \in RandVals, r2 \in TileRands}
                  /\ pc' = "play"
             ELSE /\ pc' = "ended"
                  /\ UNCHANGED <<score, raw>>
    /\ UNCHANGED <<hist, steps, rowVars, netVars, rng, draws, epi, target, td,
                   fileVars>>

NextPlay == PlayTurn

SpecPlay == InitPlay /\ [][NextPlay]_vars

\* the loop runs on: no pass of it is put off for ever
SpecPlayFair == SpecPlay /\ WF_vars(NextPlay)

----------------------------------------------------------------------------
(* indexof on one constructed pattern *)

\* the tuples indexed: the first n cells for each length, and the last n
\* cells for lengths 1, 7 and 8
IndexSizes == {1, 2, 4, 6, 7, 8, 9}
IndexTuples ==
    {Tuple(n) : n \in IndexSizes} \cup {[k \in 1 .. n |-> 16 - k] : n \in {1, 7, 8}}

\* the first feature of the program, new pattern(p, iso), where the
\* constructor returned
InitIndex ==
    /\ pc = "index"
    /\ \E p \in IndexTuples, iso \in {1, 4, 8}, wraps \in BOOLEAN :
          \E len \in {shl_int_1(Len(p) * 4, wraps)} :
              /\ ~alloc(0, len).exit
              /\ feats = <<pattern_of(p, iso, len)>>
              /\ total = alloc(0, len).total
    /\ weight = <<ZeroTable>>
    /\ netop = NoOp
    /\ file = NoFile
    /\ status = "run"
    /\ IdleBoard
    /\ IdleRow
    /\ IdleEpisode

\* indexof(isom[i], b) as estimate and update call it, for an active
\* symmetry i; netop keeps the feature, the board, i and the index
IndexOf ==
    \E b \in IndexedBoards, wraps \in BOOLEAN :
        /\ pc = "index"
        /\ \E i \in 0 .. feats[1].isom_last - 1 :
              netop' = [NoOp EXCEPT !.op = "indexof", !.u = 1, !.b = b,
                                    !.best = i,
                                    !.ret = indexof_size_t(feats[1].isom[i + 1],
                                                           b, wraps)]
        /\ UNCHANGED <<pc, feats, weight, total, status, boardVars, rowVars,
                       episodeVars, file>>

NextIndex == IndexOf

SpecIndex == InitIndex /\ [][NextIndex]_vars

----------------------------------------------------------------------------
(* Reference semantics of a move, stated on lines of cells *)

NonZero(line) == SelectSeq(line, LAMBDA x : x # 0)

\* single-pass pairwise merge of a sequence of tiles, scanning from the front
RECURSIVE RefMerge(_)
RefMerge(t) ==
    IF Len(t) < 2 THEN [tiles |-> t, score |-> 0]
    ELSE IF t[1] = t[2]
         THEN LET rest == RefMerge(SubSeq(t, 3, Len(t)))
              IN [tiles |-> <<t[1] + 1>> \o rest.tiles,
                  score |-> 2 ^ (t[1] + 1) + rest.score]
         ELSE LET rest == RefMerge(Tail(t))
              IN [tiles |-> <<t[1]>> \o rest.tiles, score |-> rest.score]

\* a line of four tiles compacted toward its first cell
RefCompact(line) ==
    LET m == RefMerge(NonZero(line))
    IN [tiles |-> [k \in 1 .. 4 |-> IF k <= Len(m.tiles) THEN m.tiles[k] ELSE 0],
        score |-> m.score]

\* the four lines of cells a move in direction d compacts, each listed from
\* the edge the tiles move to (0 up, 1 right, 2 down, 3 left)
Lines(d) ==
    CASE d = 0 -> {<<j, j + 4, j + 8, j + 12>> : j \in 0 .. 3}
      [] d = 1 -> {<<4 * i + 3, 4 * i + 2, 4 * i + 1, 4 * i>> : i \in 0 .. 3}
      [] d = 2 -> {<<j + 12, j + 8, j + 4, j>> : j \in 0 .. 3}
      [] d = 3 -> {<<4 * i, 4 * i + 1, 4 * i + 2, 4 * i + 3>> : i \in 0 .. 3}

LineOf(b, cells) == [k \in 1 .. 4 |-> b[cells[k]]]

RECURSIVE SumScores(_, _)
SumScores(b, lines) ==
    IF lines = {} THEN 0
    ELSE LET l == CHOOSE x \in lines : TRUE
         IN RefCompact(LineOf(b, l)).score + SumScores(b, lines \ {l})

RefScore(b, d) == SumScores(b, Lines(d))

IsMove(h) == h.op = "move" /\ h.arg \in 0 .. 3

----------------------------------------------------------------------------
(* C1: board::move returns -1 exactly when the board after the call equals *)
(* the board before it, and otherwise the non-negative sum of the merge    *)
(* scores of the four lines it compacted.                                  *)
C1_MoveIllegalIffUnchanged ==
    \A k \in 1 .. Len(hist) :
        IsMove(hist[k]) =>
            /\ (hist[k].ret = -1) <=> (After(k) = hist[k].before)
            /\ hist[k].ret # -1 =>
                  /\ hist[k].ret >= 0
                  /\ hist[k].ret = RefScore(hist[k].before, hist[k].arg)

\* a legal merging move and an illegal move have both been made
C1_Witness ==
    /\ Len(hist) >= 2
    /\ IsMove(hist[1]) /\ hist[1].ret > 0
    /\ IsMove(hist[2]) /\ hist[2].ret = -1

----------------------------------------------------------------------------
(* C2: for every 16-bit row the table's left result and score are those of *)
(* the reference compaction: tiles keep their order and slide to cell 0,   *)
(* each adjacent equal pair merges once into rank+1 and scores 2^(rank+1). *)
RowCells(v) == [k \in 1 .. 4 |-> (v \div (16 ^ (k - 1))) % 16]

C2_TableLeftIsReference ==
    entry # NoEntry =>
        LET ref == RefCompact(RowCells(rowIn))
        IN /\ RowCells(entry.left) = ref.tiles
           /\ entry.left < 65536
           /\ entry.score = ref.score

----------------------------------------------------------------------------
(* C3: move right is mirror, move left, mirror; move up is transpose, move *)
(* left, transpose; move down is transpose, move right, transpose; board   *)
(* and score agree in each case.                                           *)
Conjugated(b, d) ==
    CASE d = 1 -> LET m == move_left(mirror(b)) IN [raw |-> mirror(m.raw), ret |-> m.ret]
      [] d = 0 -> LET m == move_left(transpose(b)) IN [raw |-> transpose(m.raw), ret |-> m.ret]
      [] d = 2 -> LET m == move_right(transpose(b)) IN [raw |-> transpose(m.raw), ret |-> m.ret]
      [] d = 3 -> move_left(b)

C3_DirectionsShareLeftSemantics ==
    \A k \in 1 .. Len(hist) :
        IsMove(hist[k]) =>
            /\ After(k) = Conjugated(hist[k].before, hist[k].arg).raw
            /\ hist[k].ret = Conjugated(hist[k].before, hist[k].arg).ret

----------------------------------------------------------------------------
(* C4: after a move, a second move in the same direction with no random    *)
(* tile in between reports -1 and leaves the board unchanged.              *)
SameMoveTwice ==
    /\ Len(hist) >= 2
    /\ IsMove(hist[Len(hist) - 1])
    /\ IsMove(Last(hist))
    /\ Last(hist).arg = hist[Len(hist) - 1].arg

C4_SecondMoveIllegal ==
    SameMoveTwice => Last(hist).ret = -1 /\ raw = Last(hist).before

(* C4 as amended: when the first move merged no tiles (it returned 0 or    *)
(* -1), the second move in the same direction reports -1 and leaves the    *)
(* board unchanged.                                                        *)
C4_SecondMoveIllegalAfterNoMerge ==
    (SameMoveTwice /\ hist[Len(hist) - 1].ret \in {0, -1}) =>
        Last(hist).ret = -1 /\ raw = Last(hist).before

\* a move that only slid tiles, repeated
C4_Witness ==
    /\ SameMoveTwice
    /\ hist[Len(hist) - 1].ret = 0
    /\ Last(hist).ret = -1

----------------------------------------------------------------------------
(* C5: rotate_right four times, mirror twice and transpose twice each give *)
(* back the original board.                                                *)
\* the last n operations are all op
Repeated(op, n) ==
    /\ Len(hist) >= n
    /\ \A k \in (Len(hist) - n + 1) .. Len(hist) : hist[k].op = op

C5_TransformsCancel ==
    /\ Repeated("rotate_right", 4) => raw = hist[Len(hist) - 3].before
    /\ Repeated("mirror", 2) => raw = hist[Len(hist) - 1].before
    /\ Repeated("transpose", 2) => raw = hist[Len(hist) - 1].before

\* four quarter turns of a board that a single quarter turn changes
C5_Witness ==
    /\ Repeated("rotate_right", 4)
    /\ hist[Len(hist) - 2].before # hist[Len(hist) - 3].before
    /\ raw = IndexBoard

----------------------------------------------------------------------------
(* C6: popup does nothing on a board with no empty cell; otherwise it      *)
(* changes exactly one cell, empty before, to 1 or 2.                      *)
Changed(a, b) == {n \in Cells : a[n] # b[n]}

C6_PopupFillsOneEmptyCell ==
    \A k \in 1 .. Len(hist) :
        hist[k].op = "popup" =>
            IF \A n \in Cells : hist[k].before[n] # 0
            THEN After(k) = hist[k].before
            ELSE \E n \in Cells :
                    /\ Changed(hist[k].before, After(k)) = {n}
                    /\ hist[k].before[n] = 0
                    /\ After(k)[n] \in {1, 2}

\* a popup that filled the last empty cell, then a popup on the full board
C6_Witness ==
    /\ Len(hist) >= 2
    /\ hist[Len(hist) - 1].op = "popup"
    /\ Last(hist).op = "popup"
    /\ Cardinality(Changed(hist[Len(hist) - 1].before, Last(hist).before)) = 1
    /\ \A n \in Cells : Last(hist).before[n] # 0
    /\ raw = Last(hist).before

----------------------------------------------------------------------------
(* C7: select_best_move(b) returns, when some direction is legal, the      *)
(* legal direction d of greatest value merge score + estimate(afterstate), *)
(* the earliest in the order up, right, down, left among equal values,     *)
(* with state b and the afterstate and reward of d; it returns an invalid  *)
(* record with state = afterstate = b exactly when no direction is legal.  *)
Legal(b, d) == move(b, d).raw # b

Value(fs, w, b, d) ==
    ToFloat(move(b, d).ret) + learning_estimate(fs, w, move(b, d).raw)

C7_SelectBestMoveIsFirstArgmax ==
    netop.op = "select" =>
        LET b == netop.b
            best == netop.best
            legal == {d \in 0 .. 3 : Legal(b, d)}
        IN /\ best.before = b
           /\ is_valid(best) <=> legal # {}
           /\ legal = {} => best.after = b
           /\ legal # {} =>
                /\ best.opcode \in legal
                /\ best.after = move(b, best.opcode).raw
                /\ best.score = move(b, best.opcode).ret
                /\ best.esti = Value(feats, weight, b, best.opcode)
                /\ \A d \in legal :
                      \E v \in {Value(feats, weight, b, d)} :
                          /\ v <= best.esti
                          /\ d < best.opcode => v < best.esti

\* trained tables, direction up legal but not chosen, and a later direction
\* whose value equals the chosen one's
C7_Witness ==
    /\ netop.op = "select"
    /\ \E k \in 1 .. Len(weight) : weight[k] # ZeroTable
    /\ is_valid(netop.best)
    /\ Legal(netop.b, 0)
    /\ netop.best.opcode # 0
    /\ \E d \in 0 .. 3 :
          /\ d > netop.best.opcode
          /\ Legal(netop.b, d)
          /\ Value(feats, weight, netop.b, d) = netop.best.esti

----------------------------------------------------------------------------
(* C8: for a pattern with 8 active isomorphisms, a board b and each of the *)
(* 8 board symmetries g, update(g(b), delta) and update(b, delta) from the *)
(* same table give the same table, and estimate(g(b)) = estimate(b) on     *)
(* every table reached.                                                    *)
Sym(g, b) == rotate(IF g >= 4 THEN mirror(b) ELSE b, g)

C8_UpdateAndEstimateAreSymmetric ==
    netop.op \in {"update", "estimate"} =>
        \A k \in 1 .. Len(feats) :
            feats[k].isom_last = 8 =>
                \E here \in {pattern_estimate(feats[k], weight[k], netop.b)} :
                    \A image \in {Sym(g, netop.b) : g \in 0 .. 7} :
                        /\ pattern_estimate(feats[k], weight[k], image) = here
                        /\ netop.op = "update" =>
                             pattern_update(feats[k], netop.before[k], image,
                                            netop.calls[k].u).table
                               = weight[k]

\* an update of a trained 8-isomorphism table on a board with 8 distinct
\* symmetric images
C8_Witness ==
    /\ netop.op = "update"
    /\ \E k \in 1 .. Len(feats) :
          /\ feats[k].isom_last = 8
          /\ netop.before[k] # ZeroTable
          /\ weight[k] # netop.before[k]
    /\ Cardinality({Sym(g, netop.b) : g \in 0 .. 7}) = 8

----------------------------------------------------------------------------
(* C9: learning::update(b, u) passes u itself, not divided by the number   *)
(* of features, to the update of every feature, and returns the sum of the *)
(* values these updates return.                                            *)
RECURSIVE SumRet(_)
SumRet(calls) == IF calls = <<>> THEN 0 ELSE calls[1].ret + SumRet(Tail(calls))

FeatureCallsMade ==
    /\ Len(netop.calls) = Len(feats)
    /\ \A k \in 1 .. Len(feats) :
          LET r == pattern_update(feats[k], netop.before[k], netop.b,
                                  netop.calls[k].u)
          IN r.table = weight[k] /\ r.value = netop.calls[k].ret

C9_UpdatePassesFullDelta ==
    netop.op = "update" =>
        /\ FeatureCallsMade
        /\ \A k \in 1 .. Len(feats) : netop.calls[k].u = netop.u
        /\ netop.ret = SumRet(netop.calls)

(* C9 as the code has it: learning::update(b, u) passes u divided by the   *)
(* number of features to the update of every feature, and returns the sum  *)
(* of the values these updates return.                                     *)
C9_UpdatePassesDeltaOverFeatures ==
    netop.op = "update" =>
        /\ FeatureCallsMade
        /\ \A k \in 1 .. Len(feats) : netop.calls[k].u * Len(feats) = netop.u
        /\ netop.ret = SumRet(netop.calls)

\* an update of a network of several features that returned a non-zero sum
C9_Witness ==
    /\ netop.op = "update"
    /\ Len(feats) >= 2
    /\ netop.u # 0
    /\ netop.ret # 0
    /\ \E k \in 1 .. Len(feats) : netop.before[k] # ZeroTable

----------------------------------------------------------------------------
(* C10: pattern::update(b, u) adds the full u once per active isomorphism  *)
(* to the entry that isomorphism indexes: an entry indexed by k of them    *)
(* grows by k * u, and every other entry is unchanged.                     *)
IndexedBy(f, b, j) == {i \in 1 .. f.isom_last : indexof(f.isom[i], b) = j}

Entries(k) ==
    DOMAIN netop.before[k] \cup DOMAIN weight[k]
        \cup {indexof(feats[k].isom[i], netop.b) : i \in 1 .. feats[k].isom_last}

Growth(k, j) == get(weight[k], j) - get(netop.before[k], j)

C10_EntryGrowsByFullDelta ==
    netop.op = "update" =>
        \A k \in 1 .. Len(feats) : \A j \in Entries(k) :
            Growth(k, j)
              = Cardinality(IndexedBy(feats[k], netop.b, j)) * netop.calls[k].u

(* C10 as the code has it: pattern::update(b, u) adds u divided by the     *)
(* number of active isomorphisms once per active isomorphism: an entry     *)
(* indexed by k of them grows by k * u / isom_last, and every other entry  *)
(* is unchanged.                                                           *)
C10_EntryGrowsByDeltaOverIsomorphisms ==
    netop.op = "update" =>
        \A k \in 1 .. Len(feats) : \A j \in Entries(k) :
            Growth(k, j) * feats[k].isom_last
              = Cardinality(IndexedBy(feats[k], netop.b, j)) * netop.calls[k].u

\* an update of a trained table in which one entry is indexed by several of
\* the active isomorphisms, one by exactly one, and a non-zero entry by none
C10_Witness ==
    /\ netop.op = "update"
    /\ \E k \in 1 .. Len(feats) :
          /\ feats[k].isom_last > 1
          /\ netop.calls[k].u # 0
          /\ \E j \in Entries(k) : Cardinality(IndexedBy(feats[k], netop.b, j)) >= 2
          /\ \E j \in Entries(k) : Cardinality(IndexedBy(feats[k], netop.b, j)) = 1
          /\ \E j \in DOMAIN netop.before[k] :
                IndexedBy(feats[k], netop.b, j) = {}

----------------------------------------------------------------------------
(* C11: the value update(b, u) returns, of each pattern and summed by the  *)
(* network, equals the value estimate(b) returns right after the update,   *)
(* also when two active isomorphisms index the same table entry.           *)
C11_UpdateReturnsFreshEstimate ==
    netop.op = "update" =>
        /\ \A k \in 1 .. Len(feats) :
              netop.calls[k].ret = pattern_estimate(feats[k], weight[k], netop.b)
        /\ netop.ret = learning_estimate(feats, weight, netop.b)

----------------------------------------------------------------------------
(* C12: in the backward pass the error of a move record is                 *)
(* target - (recorded estimate - recorded reward): the afterstate value    *)
(* captured when the move was chosen, not one re-read from the weights.    *)
C12_ErrorFromRecordedEstimate ==
    (pc = "learn" /\ td # NoTd) =>
        td.error = td.target - (td.mv.esti - ToFloat(td.mv.score))

(* C12 as the code has it: the error of a move record is                   *)
(* target - estimate(afterstate), the estimate read from the weights as    *)
(* they are when the record is processed, after the updates of the later   *)
(* records of the same pass.                                               *)
C12_ErrorFromCurrentEstimate ==
    (pc = "learn" /\ td # NoTd) =>
        /\ td.error = td.target - learning_estimate(feats, td.before, td.mv.after)
        /\ LET r == learning_update(feats, td.before, td.mv.after,
                                    FScale(Alpha, td.error))
           IN /\ weight = r.weight
              /\ target = ToFloat(td.mv.score) + r.value

\* a pass on a record whose afterstate value has changed since it was chosen
C12_Witness ==
    /\ pc = "learn"
    /\ td # NoTd
    /\ td.before # [k \in 1 .. Len(feats) |-> ZeroTable]
    /\ learning_estimate(feats, td.before, td.mv.after)
         # td.mv.esti - ToFloat(td.mv.score)
    /\ td.error # 0

----------------------------------------------------------------------------
(* C13: the move log of an episode is valid records followed by exactly    *)
(* one terminal record; the first state holds exactly two tiles of rank 1  *)
(* or 2; a valid record's afterstate is its action applied to its state;   *)
(* the next state is that afterstate with one empty cell filled by 1 or 2; *)
(* a record is terminal exactly when no direction is legal on its state;   *)
(* the episode score is the sum of the valid records' rewards.             *)
TwoTiles(b) ==
    /\ Cardinality({n \in Cells : b[n] # 0}) = 2
    /\ \A n \in Cells : b[n] \in {0, 1, 2}

OneTileAdded(a, b) ==
    \E n \in Cells : Changed(a, b) = {n} /\ a[n] = 0 /\ b[n] \in {1, 2}

RECURSIVE SumRewards(_)
SumRewards(p) ==
    IF p = <<>> THEN 0
    ELSE (IF is_valid(p[1]) THEN p[1].score ELSE 0) + SumRewards(Tail(p))

C13_EpisodeLogIsWellFormed ==
    pc \in {"play", "ended"} =>
        LET n == Len(path)
            state(k) == IF k = n + 1 THEN raw ELSE path[k].before
        IN /\ TwoTiles(state(1))
           /\ \A k \in 1 .. n :
                 /\ is_valid(path[k]) <=> (k < n \/ pc = "play")
                 /\ is_valid(path[k]) <=> \E d \in 0 .. 3 : Legal(path[k].before, d)
                 /\ is_valid(path[k]) =>
                       /\ path[k].opcode \in 0 .. 3
                       /\ path[k].after = move(path[k].before, path[k].opcode).raw
                       /\ path[k].score = move(path[k].before, path[k].opcode).ret
                       /\ (k < n \/ pc = "play") =>
                             OneTileAdded(path[k].after, state(k + 1))
           /\ pc = "ended" => n >= 1
           /\ score = SumRewards(path)

\* an episode that ended after moves with and without reward and after
\* random tiles of both ranks
C13_Witness ==
    /\ pc = "ended"
    /\ Len(path) >= 10
    /\ ~is_valid(Last(path))
    /\ score > 0
    /\ \E k \in 1 .. Len(path) - 1 : path[k].score = 0
    /\ \E k \in 1 .. Len(path) - 1 : \E n \in Cells :
          path[k].after[n] = 0 /\ path[k + 1].before[n] = 2

----------------------------------------------------------------------------
(* C18: with all weights zero select_best_move picks the legal direction   *)
(* of greatest merge score, the earliest in the order up, right, down,     *)
(* left among equal scores; so the move log of the first episode is fixed  *)
(* by the sequence of random draws.                                        *)
GreedyMove(b) ==
    LET legal == {d \in 0 .. 3 : Legal(b, d)}
    IN IF legal = {} THEN -1
       ELSE CHOOSE d \in legal :
               \A e \in legal :
                  /\ move(b, e).ret <= move(b, d).ret
                  /\ e < d => move(b, e).ret < move(b, d).ret

\* the log that the draws ds, taken two per random tile, lead to from b
RECURSIVE GreedyLog(_, _, _, _)
GreedyLog(b, ds, cellFirst, acc) ==
    LET d == GreedyMove(b)
        m == move(b, d)
    IN IF d = -1
       THEN Append(acc, [before |-> b, after |-> b, opcode |-> -1, score |-> -1,
                         esti |-> NegFltMax])
       ELSE IF Len(ds) < 2 THEN acc
       ELSE GreedyLog(IF cellFirst THEN popup(m.raw, ds[1], ds[2])
                      ELSE popup(m.raw, ds[2], ds[1]),
                      SubSeq(ds, 3, Len(ds)), cellFirst,
                      Append(acc, [before |-> b, after |-> m.raw, opcode |-> d,
                                   score |-> m.ret, esti |-> ToFloat(m.ret)]))

FirstBoard(ds, cellFirst) ==
    LET one == IF cellFirst THEN popup(ZeroBoard, ds[1], ds[2])
               ELSE popup(ZeroBoard, ds[2], ds[1])
    IN IF cellFirst THEN popup(one, ds[3], ds[4]) ELSE popup(one, ds[4], ds[3])

C18_FirstEpisodeIsGreedyAndFixedByDraws ==
    (pc \in {"play", "ended"} /\ epi = 1) =>
        /\ \A k \in 1 .. Len(path) : path[k].opcode = GreedyMove(path[k].before)
        /\ pc = "ended" =>
              path = GreedyLog(FirstBoard(draws, rng.cellFirst),
                               SubSeq(draws, 5, Len(draws)), rng.cellFirst, <<>>)

\* a finished first episode in which a later direction won by its score and
\* in which an earlier direction won among equal scores
C18_Witness ==
    /\ pc = "ended"
    /\ epi = 1
    /\ Len(path) >= 10
    /\ \E k \in 1 .. Len(path) - 1 :
          /\ path[k].opcode > 0
          /\ Legal(path[k].before, 0)
    /\ \E k \in 1 .. Len(path) - 1 : \E d \in 0 .. 3 :
          /\ d > path[k].opcode
          /\ Legal(path[k].before, d)
          /\ move(path[k].before, d).ret = path[k].score

----------------------------------------------------------------------------
(* C14: a network saved after updates and loaded into a network with the   *)
(* same features in the same order gives every table entry, and so every   *)
(* estimate, identical to the saved network.                               *)
C14_SaveLoadRoundTrip ==
    (netop.op = "load" /\ hist # <<>> /\ hist[1].feats = feats) =>
        /\ status = "run"
        /\ weight = hist[1].weight
        /\ \A b \in FileBoards \cup AfterBoards :
              learning_estimate(feats, weight, b)
                = learning_estimate(hist[1].feats, hist[1].weight, b)

\* a trained network of two features loaded into a fresh network
C14_Witness ==
    /\ netop.op = "load"
    /\ hist # <<>>
    /\ hist[1].feats = feats
    /\ Len(feats) >= 2
    /\ \A k \in 1 .. Len(feats) : hist[1].weight[k] # ZeroTable
    /\ netop.before = ZeroWeights(feats)
    /\ weight # netop.before

----------------------------------------------------------------------------
(* C15: load of a file that opens aborts the process when the feature      *)
(* count of the file differs from the number of registered features, when  *)
(* a name or table length of the file differs from the registered feature  *)
(* at its position, or when the file ends early; it completes only when    *)
(* the file matches the registered network.                                *)
FileMatches(fl, fs) ==
    /\ Len(fl.items) >= 1 + 4 * Len(fs)
    /\ fl.items[1] = [kind |-> "size_t", val |-> Len(fs)]
    /\ \A k \in 1 .. Len(fs) :
          /\ fl.items[4 * k - 2] = [kind |-> "int", val |-> Len(name(fs[k]))]
          /\ fl.items[4 * k - 1] = [kind |-> "chars", val |-> name(fs[k])]
          /\ fl.items[4 * k] = [kind |-> "size_t", val |-> fs[k].length]
          /\ fl.items[4 * k + 1].kind = "floats"
          /\ fl.items[4 * k + 1].len = fs[k].length

C15_LoadAbortsUnlessFileMatches ==
    (netop.op = "load" /\ netop.file.readable) =>
        /\ status \in {"run", "exit1"}
        /\ status = "run" <=> FileMatches(netop.file, feats)

\* a load that aborted after the count and the first name had matched
C15_Witness ==
    /\ netop.op = "load"
    /\ netop.file.readable
    /\ status = "exit1"
    /\ Len(netop.file.items) >= 3
    /\ netop.file.items[1].val = Len(feats)
    /\ netop.file.items[3] = [kind |-> "chars", val |-> name(feats[1])]

----------------------------------------------------------------------------
(* C16: load on a file that cannot be opened changes no weight and raises  *)
(* no error; save on a file that cannot be opened writes nothing and       *)
(* raises no error.                                                        *)
C16_UnopenableFileIsSkipped ==
    /\ (netop.op = "load" /\ ~netop.file.readable) =>
          weight = netop.before /\ status = "run"
    /\ (netop.op = "save" /\ ~netop.file.writable) =>
          file = netop.file /\ weight = netop.before /\ status = "run"

\* a save of a trained network on a file that exists and is read-only
C16_Witness ==
    /\ netop.op = "save"
    /\ netop.file.readable
    /\ ~netop.file.writable
    /\ weight # ZeroWeights(feats)
    /\ file.items # save_items(feats, weight)

----------------------------------------------------------------------------
(* C17: constructing a pattern over N positions aborts with the memory     *)
(* limit diagnostic exactly when the tables requested so far, with the new *)
(* one of 16^N four-byte entries, exceed 1 GiB; otherwise the feature gets *)
(* a zero table of exactly 16^N entries.                                   *)
\* four-byte entries: more than 1 GiB is more than 2^30 / 4 entries, and 16^8
\* entries alone are more
ExceedsLimit(tot, n) ==
    IF n >= 8 THEN TRUE ELSE tot + 16 ^ n > (2 ^ 30) \div 4

C17_AbortsExactlyOverOneGiB ==
    (netop.op = "construct" /\ netop.u >= 1) =>
        /\ status = "exit-1" <=> ExceedsLimit(netop.ret, netop.u)
        /\ ~ExceedsLimit(netop.ret, netop.u) =>
              /\ status = "run"
              /\ Last(feats).length = 16 ^ netop.u
              /\ Last(weight) = ZeroTable

----------------------------------------------------------------------------
(* C19: on every board, rank-15 tiles included, a left or right move makes *)
(* result row i from input row i alone: every cell of it holds the rank    *)
(* the compaction of that row produced, two merged rank-k tiles leaving    *)
(* one tile of rank k+1, and no row writes into a cell of another row.     *)
C19_RowsMoveIndependently ==
    \A k \in 1 .. Len(hist) :
        (IsMove(hist[k]) /\ hist[k].arg \in {1, 3}) =>
            \A line \in Lines(hist[k].arg) :
                LineOf(After(k), line) = RefCompact(LineOf(hist[k].before, line)).tiles

----------------------------------------------------------------------------
(* C20: for every pattern p, symmetry number i in 0..7 and board b, the    *)
(* index read from b at the i-th isomorphic pattern equals the index read  *)
(* at p from b mirrored when i >= 4 and then turned clockwise i quarter    *)
(* turns; the 0-th isomorphic pattern is p itself.                         *)
Clockwise(b) == [n \in Cells |-> b[4 * (3 - (n % 4)) + (n \div 4)]]

Mirrored(b) == [n \in Cells |-> b[4 * (n \div 4) + 3 - (n % 4)]]

RECURSIVE Turned(_, _)
Turned(b, i) == IF i = 0 THEN b ELSE Turned(Clockwise(b), i - 1)

NetworkTuples ==
    { <<0, 1, 2, 3, 4, 5>>, <<4, 5, 6, 7, 8, 9>>, <<0, 1, 2, 4, 5, 6>>,
      <<4, 5, 6, 8, 9, 10>>, <<0, 1>>, <<0, 5>>, <<1, 2>> }

C20_IsomorphicIndexIsIndexOfTransformedBoard ==
    /\ \A k \in 1 .. Len(feats) :
          \E p \in NetworkTuples :
              /\ feats[k].isom[1] = p
              /\ feats[k] = pattern(p, feats[k].isom_last)
    /\ netop.op \in {"estimate", "update", "select"} =>
          \A i \in 0 .. 7 :
              \E image \in {Turned(IF i >= 4 THEN Mirrored(netop.b) ELSE netop.b, i)} :
                  \A k \in 1 .. Len(feats) :
                      indexof(feats[k].isom[i + 1], netop.b)
                        = indexof(feats[k].isom[1], image)

\* a 6-tuple read from a board on which its 8 isomorphic patterns read 8
\* different indices
C20_Witness ==
    /\ netop.op = "estimate"
    /\ Len(feats) = 4
    /\ Cardinality({indexof(feats[1].isom[i], netop.b) : i \in 1 .. 8}) = 8

----------------------------------------------------------------------------
(* C21: the backward pass consumes the log from last to first: the         *)
(* terminal record is dropped with no weight update and the target set to  *)
(* 0; each pass takes the last record left, updates its afterstate once    *)
(* with the target the pass before left, and leaves as target the record's *)
(* reward plus the value that update returned; the pass ends on the empty  *)
(* log.                                                                    *)
BackwardPassStep ==
    /\ (pc = "ended" /\ pc' = "learn") =>
          /\ ~is_valid(Last(path))
          /\ path' = pop_back(path)
          /\ weight' = weight
          /\ target' = 0
    /\ (pc = "learn" /\ pc' = "learn") =>
          /\ path # <<>>
          /\ is_valid(Last(path))
          /\ path' = pop_back(path)
          /\ td'.mv = Last(path)
          /\ td'.target = target
          /\ LET r == learning_update(feats, weight, Last(path).after,
                                      FScale(Alpha, td'.error))
             IN /\ weight' = r.weight
                /\ target' = ToFloat(Last(path).score) + r.value
    /\ (pc = "learn" /\ pc' = "begin") =>
          /\ path = <<>>
          /\ weight' = weight

C21_BackwardPassConsumesLogInReverse == [][BackwardPassStep]_vars

\* a pass that has consumed the whole log, its last update made with a
\* non-zero target on weights the earlier updates had changed
C21_Witness ==
    /\ pc = "learn"
    /\ path = <<>>
    /\ td # NoTd
    /\ td.target # 0
    /\ td.before # ZeroWeights(feats)
    /\ weight # td.before

----------------------------------------------------------------------------
(* C22: for every pattern whose construction did not abort, every board    *)
(* and every active symmetry, the index indexof computes is at least 0 and *)
(* below the length of the feature's table.                                *)
\* a size_t word is below a table length that fits an int
Below(index, len) ==
    IF (\E n \in 8 .. 15 : index[n] # 0) \/ index[7] >= 8 THEN FALSE
    ELSE index[0] + 16 * index[1] + 256 * index[2] + 4096 * index[3]
         + 65536 * (index[4] + 16 * index[5] + 256 * index[6] + 4096 * index[7])
         < len

C22_IndexWithinTable ==
    netop.op = "indexof" => Below(netop.ret, feats[netop.u].length)

\* the same bound for the tuples of at most seven positions, whose table
\* length 1 << (4 * N) is defined; there the size_t index is the int index
C22_IndexWithinTableUpToSeven ==
    (netop.op = "indexof" /\ Len(feats[netop.u].isom[1]) <= 7) =>
        /\ Below(netop.ret, feats[netop.u].length)
        /\ netop.ret = U64(indexof(feats[netop.u].isom[netop.best + 1], netop.b))

----------------------------------------------------------------------------
(* C23: for every 16-bit row, compacting the row to the left and           *)
(* compacting it to the right give the same merge score, and the score     *)
(* field of the table entry is that score, the reference score of either   *)
(* direction.                                                              *)
Reversed(line) == [k \in 1 .. 4 |-> line[5 - k]]

C23_ScoreIsSameLeftAndRight ==
    entry # NoEntry =>
        LET cells == RowCells(rowIn)
            leftScore == mvleft([k \in 0 .. 3 |-> cells[k + 1]]).score
            rightScore == mvleft([k \in 0 .. 3 |-> cells[4 - k]]).score
        IN /\ leftScore = rightScore
           /\ entry.score = leftScore
           /\ entry.score = RefCompact(cells).score
           /\ entry.score = RefCompact(Reversed(cells)).score

\* the entry of row [1,1,1,0]: the left move merges the first two tiles,
\* the right move the last two, and both score 4
C23_Witness ==
    /\ entry # NoEntry
    /\ RowCells(rowIn) = <<1, 1, 1, 0>>
    /\ RowCells(entry.left) = <<2, 1, 0, 0>>
    /\ RowCells(entry.right) = <<0, 0, 1, 2>>
    /\ entry.score = 4

----------------------------------------------------------------------------
(* C24: on a board whose ranks are all below 15, a legal move keeps the    *)
(* sum of the tile values 2^rank of the non-empty cells, and the score it  *)
(* returns is the sum of the values of the tiles its merges created.       *)
RECURSIVE TileSumFrom(_, _)
TileSumFrom(b, n) ==
    IF n > 15 THEN 0
    ELSE (IF b[n] = 0 THEN 0 ELSE 2 ^ b[n]) + TileSumFrom(b, n + 1)

TileSum(b) == TileSumFrom(b, 0)

\* the ranks of the tiles that merging a sequence of tiles from the front
\* creates
RECURSIVE RefCreated(_)
RefCreated(t) ==
    IF Len(t) < 2 THEN <<>>
    ELSE IF t[1] = t[2]
         THEN <<t[1] + 1>> \o RefCreated(SubSeq(t, 3, Len(t)))
         ELSE RefCreated(Tail(t))

RECURSIVE SumValues(_)
SumValues(t) == IF t = <<>> THEN 0 ELSE 2 ^ Head(t) + SumValues(Tail(t))

RECURSIVE CreatedValueOf(_, _)
CreatedValueOf(b, lines) ==
    IF lines = {} THEN 0
    ELSE LET l == CHOOSE x \in lines : TRUE
         IN SumValues(RefCreated(NonZero(LineOf(b, l))))
            + CreatedValueOf(b, lines \ {l})

CreatedValue(b, d) == CreatedValueOf(b, Lines(d))

BelowRank15(b) == \A n \in Cells : b[n] < 15

C24_MoveKeepsTileSum ==
    \A k \in 1 .. Len(hist) :
        (IsMove(hist[k]) /\ hist[k].ret # -1 /\ BelowRank15(hist[k].before)) =>
            /\ TileSum(After(k)) = TileSum(hist[k].before)
            /\ hist[k].ret = CreatedValue(hist[k].before, hist[k].arg)

\* a legal move with at least two merges has been made on a board below
\* rank 15
C24_Witness ==
    \E k \in 1 .. Len(hist) :
        /\ IsMove(hist[k])
        /\ BelowRank15(hist[k].before)
        /\ hist[k].ret > 0
        /\ Cardinality({n \in Cells : After(k)[n] # 0})
             <= Cardinality({n \in Cells : hist[k].before[n] # 0}) - 2

----------------------------------------------------------------------------
(* C25: after a legal move the board has an empty cell, so the popup that  *)
(* follows is not a no-op: the turn (move, then popup) adds exactly one    *)
(* tile, and the number of non-empty cells after the turn is the number    *)
(* before it, minus the number of merges of the move, plus one.            *)
Tiles(b) == Cardinality({n \in Cells : b[n] # 0})

RECURSIVE MergesOf(_, _)
MergesOf(b, lines) ==
    IF lines = {} THEN 0
    ELSE LET l == CHOOSE x \in lines : TRUE
         IN Len(RefCreated(NonZero(LineOf(b, l)))) + MergesOf(b, lines \ {l})

Merges(b, d) == MergesOf(b, Lines(d))

\* record k is a legal move and record k + 1 the popup after it
IsTurn(k) ==
    /\ k + 1 <= Len(hist)
    /\ IsMove(hist[k])
    /\ hist[k].ret # -1
    /\ hist[k + 1].op = "popup"

TurnAddsOneTile(k) ==
    /\ \E n \in Cells : After(k)[n] = 0
    /\ \E n \in Cells : Changed(After(k), After(k + 1)) = {n} /\ After(k)[n] = 0
    /\ Tiles(After(k + 1)) = Tiles(hist[k].before) - Merges(hist[k].before, hist[k].arg) + 1

C25_TurnAddsOneTile ==
    \A k \in 1 .. Len(hist) : IsTurn(k) => TurnAddsOneTile(k)

\* two rank-15 tiles next to each other in a line the move compacts, with
\* nothing but empty cells between them
MergesRank15(b, d) ==
    \E l \in Lines(d) : 
        \E j \in 1 .. Len(NonZero(LineOf(b, l))) - 1 :
            /\ NonZero(LineOf(b, l))[j] = 15
            /\ NonZero(LineOf(b, l))[j + 1] = 15

\* the same on the turns whose move has no two rank-15 tiles to merge
C25_TurnAddsOneTileUnlessRank15Merges ==
    \A k \in 1 .. Len(hist) :
        (IsTurn(k) /\ ~MergesRank15(hist[k].before, hist[k].arg)) => TurnAddsOneTile(k)

\* the same on the log of an episode being played: a record's board before
\* is the board the turn of the record before it left
C25_PlayedTurnAddsOneTile ==
    pc = "play" =>
        \A k \in 1 .. Len(path) :
            LET next == IF k = Len(path) THEN raw ELSE path[k + 1].before
            IN /\ is_valid(path[k])
               /\ \E n \in Cells : path[k].after[n] = 0
               /\ \E n \in Cells : Changed(path[k].after, next) = {n}
               /\ Tiles(next) = Tiles(path[k].before)
                                - Merges(path[k].before, path[k].opcode) + 1

----------------------------------------------------------------------------
(* C26: every episode terminates: from every board, whatever the weights   *)
(* and the random tiles, the play loop comes to a board with no legal move *)
(* and appends the terminal record; every completed turn raises the total  *)
(* tile value of the board by 2 or 4, and the total never exceeds that of  *)
(* 16 cells of rank 15.                                                    *)
TurnRaisesTotal ==
    (pc = "play" /\ pc' = "play" /\ path' # path) =>
        TileSum(raw') - TileSum(raw) \in {2, 4}

TotalIsBounded == TileSum(raw) <= 16 * (2 ^ 15)

EpisodeEnded == pc = "ended" /\ path # <<>> /\ ~is_valid(Last(path))

C26_TurnRaisesTotalUnlessRank15Merges ==
    [][(pc = "play" /\ pc' = "play" /\ path' # path
          /\ ~MergesRank15(raw, Last(path').opcode)) => TurnRaisesTotal]_vars

\* the episodes played from the boards of PlayStarts end
C26_PlayedEpisodeEnds == (pc = "play") ~> EpisodeEnded

----------------------------------------------------------------------------
(* C27: learning::update(b, u) on K patterns adds u / (K * S) per active   *)
(* symmetry of a pattern with S of them.  When the entries the update      *)
(* addresses are pairwise distinct, estimate(b) after the update is        *)
(* estimate(b) before it plus exactly u; when two active symmetries of one *)
(* pattern address the same entry, estimate(b) grows by more than u in     *)
(* magnitude.                                                              *)
Abs(x) == IF x < 0 THEN -x ELSE x

\* no entry of a table is addressed by two active symmetries of its pattern
EntriesDistinct ==
    \A k \in 1 .. Len(feats) : \A j \in Entries(k) :
        Cardinality(IndexedBy(feats[k], netop.b, j)) <= 1

EstimateGrowth ==
    learning_estimate(feats, weight, netop.b)
      - learning_estimate(feats, netop.before, netop.b)

====
